---- MODULE Spec2Model ----
(***************************************************************************)
(* The TCP transport of the JSON-RPC server, lib/jsonrpc/jsonrpc_server_tcp.c *)
(*                                                                         *)
(* One reactor thread runs spdk_jsonrpc_server_poll; its position inside   *)
(* the poll step is pc.  Any number of producer contexts complete requests *)
(* and call spdk_jsonrpc_server_send_response, which shares exactly one    *)
(* structure with the reactor: the per-connection send_queue, guarded by   *)
(* queue_lock.  The reactor is therefore cut into steps at every access to *)
(* the queue, and the two STAILQ operations are cut between the read and   *)
(* the write of the list's pointers, so that mutual exclusion is something *)
(* the lock provides and not something the model assumes.                  *)
(*                                                                         *)
(* The peers (pending connects, the bytes a recv() returns, how many bytes *)
(* a send() takes, every errno) are the environment: nondeterministic.     *)
(***************************************************************************)
EXTENDS Integers, Sequences, FiniteSets, TLC

\* ---------------------------------------------------------------- bounds
\* jsonrpc_internal.h sets SPDK_JSONRPC_MAX_CONNS to 64 and
\* SPDK_JSONRPC_RECV_BUF_SIZE to 32 KiB; the model scales both down.
SPDK_JSONRPC_MAX_CONNS == 2
SPDK_JSONRPC_RECV_BUF_SIZE == 2
\* requests ever allocated by the parser
MaxReqs == 3
\* peers that ever call connect()
MaxConnects == 3
\* connects and allocated requests together: what the peers do in one run
MaxEvents == 4
\* longest response payload, in bytes
MaxRespLen == 2
\* most bytes one send() call takes (the transport's K)
MaxSendChunk == 1

NULL == 0
Slots == 1..SPDK_JSONRPC_MAX_CONNS
ReqIds == 1..MaxReqs

\* The byte stream as the frame parser sees it: "a" is a byte inside a frame,
\* "}" is the byte that completes a frame, "x" is a byte no frame can contain.
Bytes == {"a", "}", "x"}

VARIABLES
    server,        \* "none" (before listen) | "up" | "freed" (after shutdown)
    free_conns,    \* server->free_conns, a TAILQ of slots
    conns,         \* server->conns, the active TAILQ
    conns_array,   \* server->conns_array[i]: one record per slot
    requests,      \* every spdk_jsonrpc_request the parser allocated
    nreq,          \* how many were allocated
    pc,            \* the reactor's position in spdk_jsonrpc_server_poll
    conn,          \* poll's loop variable conn (a slot, or NULL)
    conn_tmp,      \* poll's conn_tmp of TAILQ_FOREACH_SAFE
    request,       \* the local request of spdk_jsonrpc_server_dequeue_request
    rc,            \* poll's rc after spdk_jsonrpc_server_conn_recv returned
    rx,            \* the system call the reactor just made (accept, send or
                   \* recv) and what it saw: the locals of that call
    backlog,       \* peers connected by the kernel, not yet accept()ed
    nconnect,      \* peers that ever connected
    naccepted,     \* slots ever moved free -> active
    wire,          \* per active slot: the bytes send() took on its socket
    submitted,     \* per active slot: the requests queued and their lengths, in order
    uaf            \* what a send_response after shutdown did to freed memory

vars == <<server, free_conns, conns, conns_array, requests, nreq, pc, conn,
          conn_tmp, request, rc, rx, backlog, nconnect, naccepted, wire,
          submitted, uaf>>

reactor == <<pc, conn, conn_tmp, request, rc, rx>>
peers == <<backlog, nconnect, naccepted>>

\* ------------------------------------------------------------- helpers
Min(a, b) == IF a < b THEN a ELSE b

\* sys/queue.h TAILQ of the server, as a sequence of slots
TAILQ_FIRST(q) == IF q = <<>> THEN NULL ELSE q[1]
TAILQ_EMPTY(q) == q = <<>>
TAILQ_INSERT_TAIL(q, c) == Append(q, c)
TAILQ_INSERT_HEAD(q, c) == <<c>> \o q
TAILQ_REMOVE(q, c) == SelectSeq(q, LAMBDA x : x # c)
TAILQ_NEXT(q, c) ==
    IF \E i \in 1..Len(q) : q[i] = c /\ i < Len(q)
    THEN q[(CHOOSE i \in 1..Len(q) : q[i] = c /\ i < Len(q)) + 1]
    ELSE NULL

Count(q, c) == Cardinality({i \in 1..Len(q) : q[i] = c})

\* calloc(1, sizeof(struct spdk_jsonrpc_server)): every field of every slot is 0.
\* stqh_last names a link field: 0 is &send_queue.stqh_first (and, before
\* STAILQ_INIT, the null pointer, which nothing reads), r > 0 is &r->link.
ConnZero ==
    [sockfd |-> 0, closed |-> FALSE, recv_len |-> 0, recv_buf |-> <<>>,
     outstanding_requests |-> 0, queue_lock |-> 0,
     stqh_first |-> NULL, stqh_last |-> NULL, send_request |-> NULL]

\* a request the parser has not allocated yet
ReqNone ==
    [state |-> "unalloc", conn |-> NULL, send_len |-> 0, send_offset |-> 0,
     len |-> 0, link |-> NULL, last |-> NULL]

\* no system call made yet in this iteration.  call names the call; pre is
\* recv_len (recv), send_offset (send) or the length of conns (accept) before
\* it; n is what it returned (0 for a transient errno of send, -1 for a
\* failure); data is what recv() stored; parsed is what the parser returned
\* to conn_recv.
NoRx == [call |-> "none", pre |-> 0, n |-> 0, data |-> <<>>, parsed |-> 0]

\* requests that exist (allocated and not released)
Live == {"held", "locked", "queued", "sending"}
LiveReqs(c) == {r \in ReqIds : requests[r].conn = c /\ requests[r].state \in Live}

\* ---------------------------------------------------------------- Init
Init ==
    /\ server = "none"
    /\ free_conns = <<>>
    /\ conns = <<>>
    /\ conns_array = [c \in Slots |-> ConnZero]
    /\ requests = [r \in ReqIds |-> ReqNone]
    /\ nreq = 0
    /\ pc = "idle"
    /\ conn = NULL
    /\ conn_tmp = NULL
    /\ request = NULL
    /\ rc = 0
    /\ rx = NoRx
    /\ backlog = 0
    /\ nconnect = 0
    /\ naccepted = 0
    /\ wire = [c \in Slots |-> <<>>]
    /\ submitted = [c \in Slots |-> <<>>]
    /\ uaf = "none"

\* --------------------------------------------------- listen and shutdown
\* for (i = 0; i < SPDK_JSONRPC_MAX_CONNS; i++) TAILQ_INSERT_TAIL(&free_conns, ...)
RECURSIVE InitFreeConns(_)
InitFreeConns(i) ==
    IF i = 0 THEN <<>> ELSE TAILQ_INSERT_TAIL(InitFreeConns(i - 1), i)

\* spdk_jsonrpc_server_listen: ok is whether socket, fcntl, bind and listen
\* all succeeded; on any failure the server is freed and NULL is returned.
spdk_jsonrpc_server_listen ==
    /\ server = "none"
    /\ \E ok \in BOOLEAN :
          IF ok
          THEN /\ server' = "up"
               /\ free_conns' = InitFreeConns(SPDK_JSONRPC_MAX_CONNS)
               /\ conns' = <<>>
          ELSE UNCHANGED <<server, free_conns, conns>>
    /\ UNCHANGED <<conns_array, requests, nreq, reactor, peers, wire, submitted, uaf>>

\* spdk_jsonrpc_server_shutdown: close the listen socket and the socket of
\* every active connection, then free(server).  conn->sockfd is not reset and
\* nothing looks at closed, outstanding_requests or the queues.
spdk_jsonrpc_server_shutdown ==
    /\ server = "up"
    /\ pc = "idle"
    /\ server' = "freed"
    /\ backlog' = 0
    /\ UNCHANGED <<free_conns, conns, conns_array, requests, nreq, reactor,
                   nconnect, naccepted, wire, submitted, uaf>>

\* a peer connects: the kernel queues it on the listen socket's backlog
Connect ==
    /\ server = "up"
    /\ nconnect < MaxConnects
    /\ nconnect + nreq < MaxEvents
    /\ nconnect' = nconnect + 1
    /\ backlog' = backlog + 1
    /\ UNCHANGED <<server, free_conns, conns, conns_array, requests, nreq,
                   reactor, naccepted, wire, submitted, uaf>>

\* ------------------------------------------------- the external collaborators
\* spdk_jsonrpc_free_request (jsonrpc_server.c): the request's connection loses
\* one outstanding request and the request's memory is freed: nothing of it is
\* left but how it was released, "sent" from conn_send or "discarded" from
\* poll's closed branch.
spdk_jsonrpc_free_request(st, r, how) ==
    [ca |-> [st.ca EXCEPT ![st.rq[r].conn].outstanding_requests = @ - 1],
     rq |-> [st.rq EXCEPT ![r] = [ReqNone EXCEPT !.state = how]]]

\* The frame parser behind spdk_jsonrpc_parse_request: 0 when buf holds no
\* complete frame, -1 when it is malformed, else the bytes the first frame takes.
FrameEnd(buf) ==
    IF \E i \in 1..Len(buf) : buf[i] # "a"
    THEN LET i == CHOOSE j \in 1..Len(buf) :
                     buf[j] # "a" /\ \A k \in 1..(j - 1) : buf[k] = "a"
         IN  IF buf[i] = "}" THEN i ELSE -1
    ELSE 0

\* -------------------------------------------------------- close and remove
\* a conn_close that closes the socket and keeps the descriptor in sockfd
spdk_jsonrpc_server_conn_close_KeepFd(ca, c) ==
    [ca EXCEPT ![c].closed = TRUE]

\* a conn_close that also gives up what the connection has outstanding
spdk_jsonrpc_server_conn_close_Reset(ca, c) ==
    [ca EXCEPT ![c].closed = TRUE,
               ![c].sockfd = IF @ >= 0 THEN -1 ELSE @,
               ![c].outstanding_requests = 0]

\* spdk_jsonrpc_server_conn_close: close(sockfd) is called when sockfd >= 0
spdk_jsonrpc_server_conn_close(ca, c) ==
    [ca EXCEPT ![c].closed = TRUE,
               ![c].sockfd = IF @ >= 0 THEN -1 ELSE @]

\* a pthread_spin_lock that returns whether or not the lock is held
pthread_spin_lock_NoWait(c) == TRUE

\* pthread_spin_lock(&conn->queue_lock) returns once the lock is free
pthread_spin_lock(c) == conns_array[c].queue_lock = 0

\* STAILQ_EMPTY(&conn->send_queue)
STAILQ_EMPTY(ca, c) == ca[c].stqh_first = NULL

\* spdk_jsonrpc_server_dequeue_request up to request = STAILQ_FIRST(...)
DequeueLock(c) ==
    /\ pthread_spin_lock(c)
    /\ conns_array' = [conns_array EXCEPT ![c].queue_lock = 1]
    /\ request' = conns_array[c].stqh_first

\* the rest of it: STAILQ_REMOVE_HEAD if a request was found, then unlock
DequeueRemove(ca, rq, c, req) ==
    IF req # NULL
    THEN LET nxt == rq[ca[c].stqh_first].link
         IN  [ca EXCEPT ![c].stqh_first = nxt,
                        ![c].stqh_last = IF nxt = NULL THEN NULL ELSE @,
                        ![c].queue_lock = 0]
    ELSE [ca EXCEPT ![c].queue_lock = 0]

\* ------------------------------------------------------------ poll: reaping
\* TAILQ_FOREACH_SAFE: the loop variable moves to c and conn_tmp to its successor
ForeachSafe(q, c) ==
    /\ conn' = c
    /\ conn_tmp' = IF c = NULL THEN conn_tmp ELSE TAILQ_NEXT(q, c)

\* spdk_jsonrpc_server_poll is entered; the first loop starts
PollEnter ==
    /\ pc = "idle"
    /\ server = "up"
    /\ pc' = "reap"
    /\ ForeachSafe(conns, TAILQ_FIRST(conns))
    /\ UNCHANGED <<server, free_conns, conns, conns_array, requests, nreq,
                   request, rc, rx, peers, wire, submitted, uaf>>

\* one test of the first loop: past the end, an open connection (skipped), or
\* a closed one, whose in-flight request is discarded before the queue is drained
ReapLoop ==
    /\ pc = "reap"
    /\ IF conn = NULL
       THEN /\ pc' = "accept"
            /\ UNCHANGED <<conn, conn_tmp, conns_array, requests>>
       ELSE IF conns_array[conn].closed
       THEN LET sr == conns_array[conn].send_request
                st == IF sr # NULL
                      THEN spdk_jsonrpc_free_request(
                               [ca |-> conns_array, rq |-> requests], sr, "discarded")
                      ELSE [ca |-> conns_array, rq |-> requests]
            IN  /\ conns_array' = [st.ca EXCEPT ![conn].send_request = NULL]
                /\ requests' = st.rq
                /\ pc' = "drain"
                /\ UNCHANGED <<conn, conn_tmp>>
       ELSE /\ ForeachSafe(conns, conn_tmp)
            /\ pc' = "reap"
            /\ UNCHANGED <<conns_array, requests>>
    /\ UNCHANGED <<server, free_conns, conns, nreq, request, rc, rx, peers,
                   wire, submitted, uaf>>

\* while ((request = dequeue_request(conn)) != NULL): the dequeue takes the lock
DrainLock ==
    /\ pc = "drain"
    /\ DequeueLock(conn)
    /\ pc' = "drain_cs"
    /\ UNCHANGED <<server, free_conns, conns, requests, nreq, conn, conn_tmp,
                   rc, rx, peers, wire, submitted, uaf>>

\* a drain loop that counts the discarded request down itself, after
\* spdk_jsonrpc_free_request has done so
DrainFree_ExtraDecrement ==
    /\ pc = "drain_cs"
    /\ LET ca == DequeueRemove(conns_array, requests, conn, request)
           st == IF request # NULL
                 THEN spdk_jsonrpc_free_request(
                          [ca |-> ca, rq |-> requests], request, "discarded")
                 ELSE [ca |-> ca, rq |-> requests]
       IN  /\ conns_array' = IF request # NULL
                             THEN [st.ca EXCEPT ![conn].outstanding_requests = @ - 1]
                             ELSE st.ca
           /\ requests' = st.rq
           /\ pc' = IF request # NULL THEN "drain" ELSE "reap_check"
    /\ request' = NULL
    /\ UNCHANGED <<server, free_conns, conns, nreq, conn, conn_tmp, rc, rx,
                   peers, wire, submitted, uaf>>

\* a drain loop that drops what it dequeues without releasing it
DrainFree_NoRelease ==
    /\ pc = "drain_cs"
    /\ conns_array' = DequeueRemove(conns_array, requests, conn, request)
    /\ pc' = IF request # NULL THEN "drain" ELSE "reap_check"
    /\ request' = NULL
    /\ UNCHANGED <<server, free_conns, conns, requests, nreq, conn, conn_tmp,
                   rc, rx, peers, wire, submitted, uaf>>

\* ... removes the head and unlocks; a request is freed, NULL ends the loop
DrainFree ==
    /\ pc = "drain_cs"
    /\ LET ca == DequeueRemove(conns_array, requests, conn, request)
           st == IF request # NULL
                 THEN spdk_jsonrpc_free_request(
                          [ca |-> ca, rq |-> requests], request, "discarded")
                 ELSE [ca |-> ca, rq |-> requests]
       IN  /\ conns_array' = st.ca
           /\ requests' = st.rq
           /\ pc' = IF request # NULL THEN "drain" ELSE "reap_check"
    /\ request' = NULL
    /\ UNCHANGED <<server, free_conns, conns, nreq, conn, conn_tmp, rc, rx,
                   peers, wire, submitted, uaf>>

\* spdk_jsonrpc_server_conn_remove; the assert on the send queue is checked by
\* the properties, the lists are moved whatever it would have said (NDEBUG).
\* pthread_spin_destroy leaves nothing behind that anything reads before the
\* pthread_spin_init of the next accept.
spdk_jsonrpc_server_conn_remove(c) ==
    /\ conns_array' = spdk_jsonrpc_server_conn_close(conns_array, c)
    /\ conns' = TAILQ_REMOVE(conns, c)
    /\ free_conns' = TAILQ_INSERT_HEAD(free_conns, c)
    /\ wire' = [wire EXCEPT ![c] = <<>>]
    /\ submitted' = [submitted EXCEPT ![c] = <<>>]

\* ReapCheck as it would be without the test of outstanding_requests
ReapCheck_NoCount ==
    /\ pc = "reap_check"
    /\ spdk_jsonrpc_server_conn_remove(conn)
    /\ ForeachSafe(conns', conn_tmp)
    /\ pc' = "reap"
    /\ UNCHANGED <<server, requests, nreq, request, rc, rx, peers, uaf>>

\* if (conn->outstanding_requests == 0) conn_remove(conn); then the next slot
ReapCheck ==
    /\ pc = "reap_check"
    /\ IF conns_array[conn].outstanding_requests = 0
       THEN spdk_jsonrpc_server_conn_remove(conn)
       ELSE UNCHANGED <<conns_array, conns, free_conns, wire, submitted>>
    /\ ForeachSafe(conns', conn_tmp)
    /\ pc' = "reap"
    /\ UNCHANGED <<server, requests, nreq, request, rc, rx, peers, uaf>>

\* ------------------------------------------------------------- poll: accept
\* the descriptor accept() returns for the peer taken into slot c
FdOf(c) == 2 + c

\* spdk_jsonrpc_server_accept as it would be without TAILQ_REMOVE(&free_conns)
spdk_jsonrpc_server_accept_NoRemove(nonblock_ok) ==
    LET c == TAILQ_FIRST(free_conns)
    IN  /\ conns_array' = [conns_array EXCEPT ![c] =
               [ConnZero EXCEPT !.sockfd = 2 + c]]
        /\ wire' = [wire EXCEPT ![c] = <<>>]
        /\ submitted' = [submitted EXCEPT ![c] = <<>>]
        /\ IF nonblock_ok
           THEN /\ conns' = TAILQ_INSERT_TAIL(conns, c)
                /\ naccepted' = naccepted + 1
                /\ UNCHANGED free_conns
           ELSE UNCHANGED <<free_conns, conns, naccepted>>

\* spdk_jsonrpc_server_accept when accept() returned a socket: the first free
\* slot is initialised; it becomes active unless fcntl(O_NONBLOCK) failed
\* (the socket is closed again, the slot stays free with the new field values).
spdk_jsonrpc_server_accept(nonblock_ok) ==
    LET c == TAILQ_FIRST(free_conns)
    IN  /\ conns_array' = [conns_array EXCEPT ![c] =
               [sockfd |-> FdOf(c), closed |-> FALSE, recv_len |-> 0,
                recv_buf |-> <<>>, outstanding_requests |-> 0, queue_lock |-> 0,
                stqh_first |-> NULL, stqh_last |-> NULL, send_request |-> NULL]]
        /\ wire' = [wire EXCEPT ![c] = <<>>]
        /\ submitted' = [submitted EXCEPT ![c] = <<>>]
        /\ IF nonblock_ok
           THEN /\ free_conns' = TAILQ_REMOVE(free_conns, c)
                /\ conns' = TAILQ_INSERT_TAIL(conns, c)
                /\ naccepted' = naccepted + 1
           ELSE UNCHANGED <<free_conns, conns, naccepted>>

\* poll calling accept() without looking at free_conns: with no free slot the
\* peer is taken off the backlog and there is nowhere to put it
PollAccept_NoCheck ==
    /\ pc = "accept"
    /\ \/ /\ backlog > 0
          /\ backlog' = backlog - 1
          /\ rx' = [NoRx EXCEPT !.call = "accept", !.pre = Len(conns), !.n = 1]
          /\ IF TAILQ_EMPTY(free_conns)
             THEN UNCHANGED <<conns_array, wire, submitted, free_conns, conns,
                              naccepted>>
             ELSE \E nonblock_ok \in BOOLEAN :
                     spdk_jsonrpc_server_accept(nonblock_ok)
       \/ /\ rx' = [NoRx EXCEPT !.call = "accept", !.pre = Len(conns), !.n = -1]
          /\ UNCHANGED <<conns_array, wire, submitted, free_conns, conns,
                         naccepted, backlog>>
    /\ pc' = "io"
    /\ conn' = TAILQ_FIRST(conns')
    /\ UNCHANGED <<server, requests, nreq, conn_tmp, request, rc, nconnect, uaf>>

\* a poll that accepts again while a peer was accepted:
\* while (!TAILQ_EMPTY(&server->free_conns) && accept succeeded)
PollAccept_Loop ==
    /\ pc = "accept"
    /\ \/ /\ ~TAILQ_EMPTY(free_conns)
          /\ backlog > 0
          /\ backlog' = backlog - 1
          /\ rx' = [NoRx EXCEPT !.call = "accept", !.pre = Len(conns), !.n = 1]
          /\ \E nonblock_ok \in BOOLEAN : spdk_jsonrpc_server_accept(nonblock_ok)
          /\ pc' = "accept"
          /\ UNCHANGED conn
       \/ /\ ~TAILQ_EMPTY(free_conns)
          /\ rx' = [NoRx EXCEPT !.call = "accept", !.pre = Len(conns), !.n = -1]
          /\ UNCHANGED <<conns_array, wire, submitted, free_conns, conns,
                         naccepted, backlog>>
          /\ pc' = "io"
          /\ conn' = TAILQ_FIRST(conns')
       \/ /\ TAILQ_EMPTY(free_conns)
          /\ UNCHANGED <<conns_array, wire, submitted, free_conns, conns,
                         naccepted, backlog, rx>>
          /\ pc' = "io"
          /\ conn' = TAILQ_FIRST(conns')
    /\ UNCHANGED <<server, requests, nreq, conn_tmp, request, rc, nconnect, uaf>>

\* if (!TAILQ_EMPTY(&server->free_conns)) spdk_jsonrpc_server_accept(server);
\* accept() takes a peer off the backlog, or fails (EAGAIN with an empty
\* backlog, any errno otherwise) and leaves everything as it was; with no free
\* slot it is not called.  The result of spdk_jsonrpc_server_accept is
\* dropped.  Then the second loop starts.
PollAccept ==
    /\ pc = "accept"
    /\ \/ /\ ~TAILQ_EMPTY(free_conns)
          /\ backlog > 0
          /\ backlog' = backlog - 1
          /\ rx' = [NoRx EXCEPT !.call = "accept", !.pre = Len(conns), !.n = 1]
          /\ \E nonblock_ok \in BOOLEAN : spdk_jsonrpc_server_accept(nonblock_ok)
       \/ /\ ~TAILQ_EMPTY(free_conns)
          /\ rx' = [NoRx EXCEPT !.call = "accept", !.pre = Len(conns), !.n = -1]
          /\ UNCHANGED <<conns_array, wire, submitted, free_conns, conns,
                         naccepted, backlog>>
       \/ /\ TAILQ_EMPTY(free_conns)
          /\ UNCHANGED <<conns_array, wire, submitted, free_conns, conns,
                         naccepted, backlog, rx>>
    /\ pc' = "io"
    /\ conn' = TAILQ_FIRST(conns')
    /\ UNCHANGED <<server, requests, nreq, conn_tmp, request, rc, nconnect, uaf>>

\* ------------------------------------------------------- poll: the second loop
\* the second loop as it would be without if (conn->closed) continue
IoLoop_NoSkip ==
    /\ pc = "io"
    /\ IF conn = NULL
       THEN /\ pc' = "idle"
            /\ conn' = NULL
            /\ conn_tmp' = NULL
       ELSE /\ pc' = "send"
            /\ UNCHANGED <<conn, conn_tmp>>
    /\ rx' = NoRx
    /\ UNCHANGED <<server, free_conns, conns, conns_array, requests, nreq,
                   request, rc, peers, wire, submitted, uaf>>

\* TAILQ_FOREACH(conn, &server->conns, link): past the end poll returns 0, a
\* closed connection is skipped, an open one is sent to and then read from
IoLoop ==
    /\ pc = "io"
    /\ IF conn = NULL
       THEN /\ pc' = "idle"
            /\ conn' = NULL
            /\ conn_tmp' = NULL
       ELSE IF conns_array[conn].closed
       THEN /\ pc' = "io"
            /\ conn' = TAILQ_NEXT(conns, conn)
            /\ UNCHANGED conn_tmp
       ELSE /\ pc' = "send"
            /\ UNCHANGED <<conn, conn_tmp>>
    /\ rx' = NoRx
    /\ UNCHANGED <<server, free_conns, conns, conns_array, requests, nreq,
                   request, rc, peers, wire, submitted, uaf>>

\* spdk_jsonrpc_server_conn_send at the label more: nothing outstanding or a
\* request already in flight needs no dequeue; otherwise the dequeue locks
SendMore ==
    /\ pc = "send"
    /\ IF conns_array[conn].outstanding_requests = 0
       THEN /\ pc' = "recv"
            /\ UNCHANGED <<conns_array, request>>
       ELSE IF conns_array[conn].send_request # NULL
       THEN /\ pc' = "send_io"
            /\ UNCHANGED <<conns_array, request>>
       ELSE /\ DequeueLock(conn)
            /\ pc' = "send_cs"
    /\ rx' = NoRx
    /\ UNCHANGED <<server, free_conns, conns, requests, nreq, conn, conn_tmp,
                   rc, peers, wire, submitted, uaf>>

\* conn->send_request = dequeue_request(conn); NULL: nothing to send right now
SendDequeue ==
    /\ pc = "send_cs"
    /\ conns_array' = [DequeueRemove(conns_array, requests, conn, request)
                          EXCEPT ![conn].send_request = request]
    /\ requests' = IF request # NULL
                   THEN [requests EXCEPT ![request].state = "sending"]
                   ELSE requests
    /\ pc' = IF request # NULL THEN "send_io" ELSE "recv"
    /\ request' = NULL
    /\ UNCHANGED <<server, free_conns, conns, nreq, conn, conn_tmp, rc, rx,
                   peers, wire, submitted, uaf>>

\* the bytes of request r that one send() of n bytes hands to the transport
SentBytes(r, off, n) == [i \in 1..n |-> <<r, off + i>>]

\* AdvanceSend as it would be without request->send_offset += rc
AdvanceSend_NoOffset(rq, r, n) ==
    [rq EXCEPT ![r].send_len = @ - n]

\* request->send_offset += rc; request->send_len -= rc;
AdvanceSend(rq, r, n) ==
    [rq EXCEPT ![r].send_offset = @ + n, ![r].send_len = @ - n]

\* SendDone as it would be without conn->send_request = NULL
SendDone_NoClear(rq, r) ==
    LET st == IF rq[r].send_len = 0
              THEN spdk_jsonrpc_free_request(
                       [ca |-> conns_array, rq |-> rq], r, "sent")
              ELSE [ca |-> conns_array, rq |-> rq]
    IN  /\ conns_array' = st.ca
        /\ requests' = st.rq
        /\ pc' = IF rq[r].send_len = 0 THEN "send" ELSE "recv"

\* if (request->send_len == 0): the response is fully sent, the request is
\* freed and conn_send goes back to more; otherwise conn_send returns 0
SendDone(rq, r) ==
    LET st == IF rq[r].send_len = 0
              THEN spdk_jsonrpc_free_request(
                       [ca |-> [conns_array EXCEPT ![conn].send_request = NULL],
                        rq |-> rq], r, "sent")
              ELSE [ca |-> conns_array, rq |-> rq]
    IN  /\ conns_array' = st.ca
        /\ requests' = st.rq
        /\ pc' = IF rq[r].send_len = 0 THEN "send" ELSE "recv"

\* a conn_send that returns -1 for every errno of send(), EAGAIN, EWOULDBLOCK
\* and EINTR included, so that poll closes the connection
SendIo_TransientCloses ==
    /\ pc = "send_io"
    /\ LET r == conns_array[conn].send_request
       IN  IF requests[r].send_len > 0
           THEN \E n \in -1..Min(MaxSendChunk, requests[r].send_len) :
                  /\ rx' = [NoRx EXCEPT !.call = "send", !.n = n,
                                        !.pre = requests[r].send_offset]
                  /\ IF n <= 0
                     THEN /\ conns_array' =
                              spdk_jsonrpc_server_conn_close(conns_array, conn)
                          /\ pc' = "io"
                          /\ conn' = TAILQ_NEXT(conns, conn)
                          /\ UNCHANGED <<requests, wire>>
                     ELSE /\ wire' = [wire EXCEPT ![conn] =
                                @ \o SentBytes(r, requests[r].send_offset, n)]
                          /\ SendDone(AdvanceSend(requests, r, n), r)
                          /\ UNCHANGED conn
           ELSE /\ SendDone(requests, r)
                /\ UNCHANGED <<wire, conn, rx>>
    /\ UNCHANGED <<server, free_conns, conns, nreq, conn_tmp, request, rc,
                   peers, submitted, uaf>>

\* the send() of conn_send and what follows it.  n > 0: the transport took n
\* bytes; n = 0: EAGAIN, EWOULDBLOCK or EINTR, conn_send returns 0; n = -1: any
\* other errno, conn_send returns -1 and poll closes the connection and goes on
\* to the next one.
SendIo ==
    /\ pc = "send_io"
    /\ LET r == conns_array[conn].send_request
       IN  IF requests[r].send_len > 0
           THEN \E n \in -1..Min(MaxSendChunk, requests[r].send_len) :
                  /\ rx' = [NoRx EXCEPT !.call = "send", !.n = n,
                                        !.pre = requests[r].send_offset]
                  /\ IF n = -1
                     THEN /\ conns_array' =
                              spdk_jsonrpc_server_conn_close(conns_array, conn)
                          /\ pc' = "io"
                          /\ conn' = TAILQ_NEXT(conns, conn)
                          /\ UNCHANGED <<requests, wire>>
                     ELSE IF n = 0
                     THEN /\ pc' = "recv"
                          /\ UNCHANGED <<conns_array, requests, wire, conn>>
                     ELSE /\ wire' = [wire EXCEPT ![conn] =
                                @ \o SentBytes(r, requests[r].send_offset, n)]
                          /\ SendDone(AdvanceSend(requests, r, n), r)
                          /\ UNCHANGED conn
           ELSE /\ SendDone(requests, r)
                /\ UNCHANGED <<wire, conn, rx>>
    /\ UNCHANGED <<server, free_conns, conns, nreq, conn_tmp, request, rc,
                   peers, submitted, uaf>>

\* ------------------------------------------------------------ poll: receive
\* what one recv() into n free bytes can return as data: 1..n bytes
ReadData(n) == UNION {[1..k -> Bytes] : k \in 1..n}

\* spdk_jsonrpc_parse_request (jsonrpc_server.c) on a buffer holding a complete
\* frame: a request is allocated for the connection, counted in
\* outstanding_requests and handed to the handler, which holds it.
Dispatch(st, c, r) ==
    [ca |-> [st.ca EXCEPT ![c].outstanding_requests = @ + 1],
     rq |-> [st.rq EXCEPT ![r] = [ReqNone EXCEPT !.state = "held", !.conn = c]]]

\* a compaction without the memmove: only recv_len -= n
Compact_NoMove(cn, n) ==
    [cn EXCEPT !.recv_buf = SubSeq(cn.recv_buf, 1, cn.recv_len - n),
               !.recv_len = cn.recv_len - n]

\* memmove(recv_buf, recv_buf + n, recv_len - n); recv_len -= n;
Compact(cn, n) ==
    [cn EXCEPT !.recv_buf = SubSeq(cn.recv_buf, n + 1, cn.recv_len),
               !.recv_len = cn.recv_len - n]

\* a conn_recv that stores what it read at the start of the buffer
RecvInto_Overwrite(cn, data) ==
    [cn EXCEPT !.recv_buf = data, !.recv_len = Len(data)]

\* recv(sockfd, recv_buf + recv_len, recv_avail, 0) returned data;
\* conn->recv_len += rc
RecvInto(cn, data) ==
    [cn EXCEPT !.recv_buf = @ \o data, !.recv_len = @ + Len(data)]

\* conn_recv after a recv() that returned data: recv_len grows, the parser
\* runs once over the buffer, and a parsed frame is moved out of the buffer
RecvData(c, data) ==
    LET cn == RecvInto(conns_array[c], data)
        parsed == FrameEnd(cn.recv_buf)
        st == [ca |-> [conns_array EXCEPT ![c] =
                          IF parsed > 0 THEN Compact(cn, parsed) ELSE cn],
               rq |-> requests]
    IN  /\ parsed > 0 => (nreq < MaxReqs /\ nconnect + nreq < MaxEvents)
        /\ rx' = [call |-> "recv", pre |-> conns_array[c].recv_len,
                  n |-> Len(data), data |-> data, parsed |-> parsed]
        /\ rc' = IF parsed < 0 THEN -1 ELSE 0
        /\ IF parsed > 0
           THEN /\ conns_array' = Dispatch(st, c, nreq + 1).ca
                /\ requests' = Dispatch(st, c, nreq + 1).rq
                /\ nreq' = nreq + 1
           ELSE /\ conns_array' = st.ca
                /\ UNCHANGED <<requests, nreq>>

\* spdk_jsonrpc_server_conn_recv.  recv() returns data (only when recv_avail
\* is not 0), 0, or -1 with a transient errno (conn_recv returns 0) or with
\* another one (it returns -1, as it does for a recv() of 0).
Recv ==
    /\ pc = "recv"
    /\ LET recv_avail == SPDK_JSONRPC_RECV_BUF_SIZE - conns_array[conn].recv_len
       IN  \/ \E data \in ReadData(recv_avail) : RecvData(conn, data)
           \/ \E res \in {"transient", "error", "zero"} :
                 /\ rc' = IF res = "transient" THEN 0 ELSE -1
                 /\ rx' = [call |-> "recv", pre |-> conns_array[conn].recv_len,
                           n |-> IF res = "zero" THEN 0 ELSE -1,
                           data |-> <<>>, parsed |-> 0]
                 /\ UNCHANGED <<conns_array, requests, nreq>>
    /\ pc' = "recv_ret"
    /\ UNCHANGED <<server, free_conns, conns, conn, conn_tmp, request, peers,
                   wire, submitted, uaf>>

\* a poll that closes the connection and returns when conn_recv fails
RecvRet_Abort ==
    /\ pc = "recv_ret"
    /\ conns_array' = IF rc # 0
                      THEN spdk_jsonrpc_server_conn_close(conns_array, conn)
                      ELSE conns_array
    /\ pc' = IF rc # 0 THEN "idle" ELSE "io"
    /\ conn' = IF rc # 0 THEN NULL ELSE TAILQ_NEXT(conns, conn)
    /\ conn_tmp' = IF rc # 0 THEN NULL ELSE conn_tmp
    /\ rc' = 0
    /\ rx' = NoRx
    /\ UNCHANGED <<server, free_conns, conns, requests, nreq, request,
                   peers, wire, submitted, uaf>>

\* rc = conn_recv(conn); if (rc != 0) conn_close(conn); then the next connection
RecvRet ==
    /\ pc = "recv_ret"
    /\ conns_array' = IF rc # 0
                      THEN spdk_jsonrpc_server_conn_close(conns_array, conn)
                      ELSE conns_array
    /\ pc' = "io"
    /\ conn' = TAILQ_NEXT(conns, conn)
    /\ rc' = 0
    /\ rx' = NoRx
    /\ UNCHANGED <<server, free_conns, conns, requests, nreq, conn_tmp, request,
                   peers, wire, submitted, uaf>>

\* ------------------------------------------------------- response submission
\* spdk_jsonrpc_server_send_response(r), first half: the handler has built a
\* response of len bytes; the lock is taken, r->link is cleared and the tail
\* pointer of the queue is read (STAILQ_INSERT_TAIL up to *stqh_last).
SendResponseLock(r) ==
    /\ server = "up"
    /\ requests[r].state = "held"
    /\ LET c == requests[r].conn
       IN  /\ pthread_spin_lock(c)
           /\ conns_array' = [conns_array EXCEPT ![c].queue_lock = 1]
           /\ \E len \in 1..MaxRespLen :
                 requests' = [requests EXCEPT ![r] =
                     [state |-> "locked", conn |-> c, send_len |-> len,
                      send_offset |-> 0, len |-> len, link |-> NULL,
                      last |-> conns_array[c].stqh_last]]
    /\ UNCHANGED <<server, free_conns, conns, nreq, reactor, peers, wire,
                   submitted, uaf>>

\* the insertion as STAILQ_INSERT_HEAD would do it
STAILQ_INSERT_HEAD(st, c, r) ==
    [ca |-> [st.ca EXCEPT ![c].stqh_first = r,
                          ![c].stqh_last = IF st.ca[c].stqh_first = NULL
                                           THEN r ELSE @],
     rq |-> [st.rq EXCEPT ![r].state = "queued", ![r].last = NULL,
                          ![r].link = st.ca[c].stqh_first]]

\* *stqh_last = r; stqh_last = &r->link, with the tail pointer read before
STAILQ_INSERT_TAIL(st, c, r) ==
    LET at == st.rq[r].last
        rq == [st.rq EXCEPT ![r].state = "queued", ![r].last = NULL]
    IN  [ca |-> [st.ca EXCEPT ![c].stqh_first = IF at = NULL THEN r ELSE @,
                              ![c].stqh_last = r],
         rq |-> IF at = NULL THEN rq ELSE [rq EXCEPT ![at].link = r]]

\* spdk_jsonrpc_server_send_response(r), second half: the request is linked
\* at the tail and the lock is released
SendResponseInsert(r) ==
    /\ server = "up"
    /\ requests[r].state = "locked"
    /\ LET c == requests[r].conn
           st == STAILQ_INSERT_TAIL([ca |-> conns_array, rq |-> requests], c, r)
       IN  /\ conns_array' = [st.ca EXCEPT ![c].queue_lock = 0]
           /\ requests' = st.rq
           /\ submitted' = [submitted EXCEPT ![c] =
                              Append(@, [r |-> r, len |-> requests[r].len])]
    /\ UNCHANGED <<server, free_conns, conns, nreq, reactor, peers, wire, uaf>>

\* spdk_jsonrpc_server_send_response(r) after spdk_jsonrpc_server_shutdown:
\* request->conn points into the freed server.  The lock and the queue are
\* read and written in freed memory: the call corrupts whatever the allocator
\* put there, or faults; the request is never sent and never released.
SendResponseFreed(r) ==
    /\ server = "freed"
    /\ requests[r].state \in {"held", "locked"}
    /\ requests' = [requests EXCEPT ![r].state = "lost"]
    /\ \E outcome \in {"corrupt", "fault"} : uaf' = outcome
    /\ UNCHANGED <<server, free_conns, conns, conns_array, nreq, reactor, peers,
                   wire, submitted>>

Next ==
    \/ spdk_jsonrpc_server_listen
    \/ spdk_jsonrpc_server_shutdown
    \/ Connect
    \/ PollEnter
    \/ ReapLoop
    \/ DrainLock
    \/ DrainFree
    \/ ReapCheck
    \/ PollAccept
    \/ IoLoop
    \/ SendMore
    \/ SendDequeue
    \/ SendIo
    \/ Recv
    \/ RecvRet
    \/ \E r \in ReqIds : SendResponseLock(r)
    \/ \E r \in ReqIds : SendResponseInsert(r)
    \/ \E r \in ReqIds : SendResponseFreed(r)

Spec == Init /\ [][Next]_vars

\* ------------------------------------------------------------ with fairness
\* the steps of spdk_jsonrpc_server_poll
Poll ==
    \/ PollEnter
    \/ ReapLoop
    \/ DrainLock
    \/ DrainFree
    \/ ReapCheck
    \/ PollAccept
    \/ IoLoop
    \/ SendMore
    \/ SendDequeue
    \/ SendIo
    \/ Recv
    \/ RecvRet

\* The reactor calls the registered poller again and again, and a poll that
\* was entered runs to its return (a spin lock that is free is taken).  Every
\* handler that holds a request submits its response in the end: it gets the
\* queue lock in one of the infinitely many moments it is free, and once it
\* has it, it inserts and unlocks.  Peers and shutdown are under no obligation.
Fairness ==
    /\ WF_vars(Poll)
    /\ \A r \in ReqIds : /\ SF_vars(SendResponseLock(r))
                         /\ WF_vars(SendResponseInsert(r))

\* the bounds of the runs checked for liveness: peers that ever connect and
\* requests that are ever dispatched
MaxLiveConnects == 1
MaxLiveReqs == 2

\* Next with fewer peers and requests
NextLive ==
    \/ spdk_jsonrpc_server_listen
    \/ spdk_jsonrpc_server_shutdown
    \/ Connect /\ nconnect < MaxLiveConnects
    \/ PollEnter
    \/ ReapLoop
    \/ DrainLock
    \/ DrainFree
    \/ ReapCheck
    \/ PollAccept
    \/ IoLoop
    \/ SendMore
    \/ SendDequeue
    \/ SendIo
    \/ Recv /\ nreq' <= MaxLiveReqs
    \/ RecvRet
    \/ \E r \in ReqIds : SendResponseLock(r)
    \/ \E r \in ReqIds : SendResponseInsert(r)
    \/ \E r \in ReqIds : SendResponseFreed(r)

SpecLive == Init /\ [][NextLive]_vars /\ Fairness
\* ====================================================================
\* Properties
\* ====================================================================
Active(c) == Count(conns, c) > 0
Free(c) == Count(free_conns, c) > 0

\* C1: a slot leaves the active list (is reaped by conn_remove in a poll step)
\* only from a state in which the connection is closed, its
\* outstanding_requests is 0, its send queue is empty (the assert of
\* conn_remove holds) and its send_request is NULL, whatever the producers do
\* in between the steps of the poll.
C1_ReapOnlyWhenQuiescent ==
    [][\A c \in Slots :
          (server = "up" /\ Active(c) /\ ~Active(c)')
          => /\ conns_array[c].closed
             /\ conns_array[c].outstanding_requests = 0
             /\ STAILQ_EMPTY(conns_array, c)
             /\ conns_array[c].send_request = NULL]_vars

\* a slot has been reaped after responses were discarded on it
C1_Witness ==
    /\ server = "up"
    /\ \E c \in Slots : Free(c) /\ conns_array[c].closed
    /\ \E r \in ReqIds : requests[r].state = "discarded"

\* C2 (as claimed): as long as a request exists (held by the handler, being
\* queued, queued or in flight), the server is not freed and the connection
\* the request points at is an active slot.
C2_NoDestroyWhileReferenced ==
    \A r \in ReqIds :
        requests[r].state \in Live
        => (server = "up" /\ Active(requests[r].conn))

\* C3: between listen and shutdown every slot is exactly once in exactly one
\* of free_conns and conns, so the lengths of the two lists add up to
\* SPDK_JSONRPC_MAX_CONNS.
C3_SlotsPartitioned ==
    server = "up"
    => /\ \A c \in Slots : Count(free_conns, c) + Count(conns, c) = 1
       /\ Len(free_conns) + Len(conns) = SPDK_JSONRPC_MAX_CONNS

\* a reaped slot next to an active one, after both accept outcomes were possible
C3_Witness ==
    /\ server = "up"
    /\ \E c \in Slots : Free(c) /\ conns_array[c].closed
    /\ \E c \in Slots : Active(c) /\ ~conns_array[c].closed
    /\ naccepted < nconnect - backlog

\* the payload of the responses in q, byte by byte
RECURSIVE Payload(_)
Payload(q) ==
    IF q = <<>> THEN <<>>
    ELSE SentBytes(Head(q).r, 0, Head(q).len) \o Payload(Tail(q))

\* the bytes of request r among the bytes w
BytesOf(w, r) == SelectSeq(w, LAMBDA b : b[1] = r)

\* C4: the bytes handed to the transport of a connection are, at every moment
\* and for every interleaving of submissions and poll steps, a prefix of all
\* the bytes of its responses in the order they were submitted: all of A, then
\* all of B, then all of C.
C4_FifoOnWire ==
    \A c \in Slots :
        (server = "up" /\ Active(c))
        => /\ Len(wire[c]) <= Len(Payload(submitted[c]))
           /\ wire[c] = SubSeq(Payload(submitted[c]), 1, Len(wire[c]))

\* A is partly transmitted and in flight, B is queued behind it, and C is
\* being submitted at this very moment
C4_Witness ==
    \E a, b, x \in ReqIds :
        /\ requests[a].state = "sending" /\ requests[a].send_offset > 0
        /\ requests[b].state = "queued" /\ requests[b].conn = requests[a].conn
        /\ requests[x].state = "locked" /\ requests[x].conn = requests[a].conn
        /\ ~conns_array[requests[a].conn].closed

\* C5: of a response of len bytes the transport has taken exactly the first
\* send_offset bytes, each once and in order; send_offset + send_len = len
\* while the request exists; a request stays in flight exactly as long as
\* send_len > 0 and conn_send releases it only with all len bytes taken.
C5_PartialSend ==
    \A c \in Slots : \A i \in 1..Len(submitted[c]) :
        (server = "up" /\ Active(c))
        => LET r == submitted[c][i].r
               len == submitted[c][i].len
               rq == requests[r]
               taken == BytesOf(wire[c], r)
           IN  /\ rq.state \in {"queued", "sending", "sent", "discarded"}
               /\ rq.state = "queued"
                  => rq.send_offset = 0 /\ rq.send_len = len /\ taken = <<>>
               /\ rq.state = "sending"
                  => /\ rq.send_offset + rq.send_len = len
                     /\ rq.send_len > 0
                     /\ taken = SentBytes(r, 0, rq.send_offset)
               /\ rq.state = "sent" => taken = SentBytes(r, 0, len)
               /\ rq.state = "discarded" => Len(taken) < len

\* a response of more than MaxSendChunk bytes, fully taken by the transport
C5_Witness ==
    \E c \in Slots : \E i \in 1..Len(submitted[c]) :
        /\ server = "up" /\ Active(c) /\ ~conns_array[c].closed
        /\ submitted[c][i].len > MaxSendChunk
        /\ requests[submitted[c][i].r].state = "sent"

\* the requests linked into the send queue of c, from stqh_first along link
RECURSIVE Chain(_, _)
Chain(r, k) ==
    IF r = NULL \/ k = 0 THEN <<>> ELSE <<r>> \o Chain(requests[r].link, k - 1)
SendQueue(c) == Chain(conns_array[c].stqh_first, MaxReqs + 1)

\* the requests submitted to c and not yet dequeued, in submission order
Pending(c) ==
    LET q == SelectSeq(submitted[c], LAMBDA e : requests[e.r].state = "queued")
    IN  [i \in 1..Len(q) |-> q[i].r]

\* C6: whatever the interleaving of producers and reactor, the send queue of a
\* connection holds exactly the requests that were submitted and not yet
\* dequeued, each once: none is lost, none can be dequeued a second time.
C6_QueueExactlyOnce ==
    \A c \in Slots :
        (server = "up" /\ Active(c))
        => /\ SendQueue(c) = Pending(c)
           /\ \A r \in ReqIds :
                 (requests[r].conn = c /\ requests[r].state = "queued")
                 => \E i \in 1..Len(submitted[c]) : submitted[c][i].r = r

\* a producer is inside send_response with the lock held while the reactor
\* wants to dequeue from the same, non-empty queue and another producer waits
C6_Witness ==
    \E r, q, h \in ReqIds :
        /\ server = "up"
        /\ requests[r].state = "locked" /\ requests[r].conn = conn
        /\ requests[q].state = "queued" /\ requests[q].conn = conn
        /\ requests[h].state = "held" /\ requests[h].conn = conn
        /\ pc = "send"
        /\ conns_array[conn].send_request = NULL

\* C7 (as claimed): no read is attempted on a connection while a complete
\* frame sits in its receive buffer: every complete frame a read delivered has
\* been parsed and dispatched before the next recv().
C7_PipelinedFramesDispatched ==
    pc = "recv" => FrameEnd(conns_array[conn].recv_buf) <= 0

\* C8: on a closed connection no byte is handed to the transport any more;
\* every request of it that is released is discarded, not sent; and its slot
\* leaves the active list only when no request of it exists any longer.
C8_ClosedNeverTransmits ==
    [][\A c \in Slots :
          (server = "up" /\ Active(c) /\ conns_array[c].closed)
          => /\ Active(c)' => wire'[c] = wire[c]
             /\ \A r \in LiveReqs(c) :
                   requests'[r].state \in Live \cup {"discarded"}
             /\ ~Active(c)' => LiveReqs(c) = {}]_vars

\* a closed connection of which one response was discarded, one request is
\* still with its handler and one response is being submitted after the close
C8_Witness ==
    \E c \in Slots :
        /\ server = "up" /\ Active(c) /\ conns_array[c].closed
        /\ \E r \in ReqIds : requests[r].state = "discarded"
        /\ \E r \in LiveReqs(c) : requests[r].state = "held"
        /\ \E r \in LiveReqs(c) : requests[r].state = "locked"

\* C9: the active list never holds more than SPDK_JSONRPC_MAX_CONNS slots,
\* and a poll step takes a peer off the backlog only when free_conns is not
\* empty: with the pool exhausted the peer waits until a slot was reaped.
C9_AcceptOnlyWithFreeSlot ==
    [][/\ Len(conns') <= SPDK_JSONRPC_MAX_CONNS
       /\ (server = "up" /\ server' = "up" /\ backlog' < backlog)
          => ~TAILQ_EMPTY(free_conns)]_vars

\* more peers than slots were accepted: the pool is full again after a reap,
\* with nobody left in the backlog
C9_Witness ==
    /\ server = "up"
    /\ naccepted > SPDK_JSONRPC_MAX_CONNS
    /\ Len(conns) = SPDK_JSONRPC_MAX_CONNS
    /\ backlog = 0

\* C10: while the receive buffer holds no complete frame, a read that does
\* not complete one only appends to the buffer (recv_len grows by what was
\* read, nothing is dropped or moved) and dispatches nothing; a dispatch
\* happens only in the call whose read completes the frame, once, and takes
\* exactly the frame out of the buffer.
C10_SplitFrame ==
    [][(pc = "recv" /\ pc' = "recv_ret" /\ FrameEnd(conns_array[conn].recv_buf) = 0)
       => LET old == conns_array[conn]
              new == conns_array'[conn]
          IN  /\ nreq' \in {nreq, nreq + 1}
              /\ new.recv_len = Len(new.recv_buf)
              /\ new.recv_len <= SPDK_JSONRPC_RECV_BUF_SIZE
              /\ nreq' = nreq
                 => /\ Len(new.recv_buf) >= Len(old.recv_buf)
                    /\ SubSeq(new.recv_buf, 1, Len(old.recv_buf)) = old.recv_buf
                    /\ rc' = 0 => FrameEnd(new.recv_buf) = 0
              /\ nreq' = nreq + 1
                 => \E data \in ReadData(SPDK_JSONRPC_RECV_BUF_SIZE - old.recv_len) :
                       LET all == old.recv_buf \o data
                       IN  /\ FrameEnd(all) > Len(old.recv_buf)
                           /\ new.recv_buf = SubSeq(all, FrameEnd(all) + 1, Len(all))
                           /\ requests'[nreq'].state = "held"
                           /\ requests'[nreq'].conn = conn]_vars

\* a frame whose first bytes came with an earlier read has just been dispatched
C10_Witness ==
    /\ pc = "recv_ret"
    /\ rx.pre > 0
    /\ rx.parsed > rx.pre
    /\ nreq > 0 /\ requests[nreq].state = "held" /\ requests[nreq].conn = conn

\* C11: conn_close is idempotent.  A closed connection has no descriptor left
\* (sockfd is -1, so a second conn_close calls close() on nothing) and
\* conn_close applied to it changes no field of any slot; applied twice to any
\* connection it gives what it gives applied once; and the second close that
\* the code does make, the one of conn_remove on the closed connection it
\* reaps, leaves the slot's fields as they were.
C11_CloseIdempotent ==
    [][\A c \in Slots :
          LET once == spdk_jsonrpc_server_conn_close(conns_array, c)
          IN  /\ conns_array[c].closed
                 => /\ conns_array[c].sockfd = -1
                    /\ once = conns_array
              /\ spdk_jsonrpc_server_conn_close(once, c) = once
              /\ (Active(c) /\ Free(c)')
                 => /\ conns_array[c].closed
                    /\ conns_array'[c] = conns_array[c]]_vars

\* conn_remove has just closed an already closed connection a second time
C11_Witness ==
    /\ pc = "reap"
    /\ \E c \in Slots :
          /\ Free(c)
          /\ conn_tmp # c /\ TAILQ_FIRST(free_conns) = c
          /\ conns_array[c].closed
          /\ conns_array[c].sockfd = -1

\* C12: poll isolates faults per connection and has no failure exit.  A fatal
\* condition of the peer (recv() of 0, a hard recv or send error, a malformed
\* frame) closes the connection poll is at and changes nothing else: no other
\* slot, neither list, no request; the second loop then goes on with the next
\* connection, sends to and reads from every open one and skips the closed
\* ones; poll returns (0) only past the end of the second loop; and whatever
\* the accept did, failures included, the second loop starts.
C12_FaultIsolation ==
    [][/\ \A c \in Slots :
             (Active(c) /\ Active(c)' /\ ~conns_array[c].closed
                 /\ conns_array'[c].closed)
             => /\ c = conn
                /\ pc \in {"send_io", "recv_ret"}
                /\ \A d \in Slots \ {c} : conns_array'[d] = conns_array[d]
                /\ UNCHANGED <<conns, free_conns, requests, nreq, wire>>
                /\ pc' = "io"
                /\ conn' = TAILQ_NEXT(conns, c)
       /\ (pc = "recv_ret" /\ pc' # pc /\ rc # 0) => conns_array'[conn].closed
       /\ (pc = "send_io" /\ rx'.call = "send" /\ rx'.n = -1)
             => conns_array'[conn].closed
       /\ (pc = "io" /\ conn # NULL /\ (pc' # pc \/ conn' # conn))
             => IF conns_array[conn].closed
                THEN pc' = "io" /\ conn' = TAILQ_NEXT(conns, conn)
                ELSE pc' = "send" /\ conn' = conn
       /\ (pc \in {"send", "send_cs", "send_io"} /\ pc' # pc)
             => \/ pc' \in {"send", "send_cs", "send_io", "recv"} /\ conn' = conn
                \/ pc = "send_io" /\ conns_array'[conn].closed
       /\ (pc # "idle" /\ pc' = "idle") => (pc = "io" /\ conn = NULL)
       /\ (pc = "accept" /\ pc' # pc)
             => (pc' = "io" /\ conn' = TAILQ_FIRST(conns'))]_vars

\* the first of two active connections was closed by a fault in this poll step
\* (a closed connection with nothing outstanding does not survive the first
\* loop), and the same step has since read data from the second one
C12_Witness ==
    /\ pc = "recv_ret"
    /\ Len(conns) = 2
    /\ conn = conns[2]
    /\ rx.call = "recv" /\ rx.n > 0
    /\ conns_array[conns[1]].closed
    /\ conns_array[conns[1]].outstanding_requests = 0
    /\ ~conns_array[conns[2]].closed

\* where poll is: 0 not in poll, 1 the first loop (reaping), 2 at the accept,
\* 3 the second loop (send and receive)
Phase(p) ==
    IF p = "idle" THEN 0
    ELSE IF p \in {"reap", "drain", "drain_cs", "reap_check"} THEN 1
    ELSE IF p = "accept" THEN 2
    ELSE 3

\* C13: one poll step moves at most one slot from the free list to the active
\* list.  Poll goes through its phases in order (reaping, the accept, the
\* second loop, return) and never back; a slot becomes active, and a peer
\* leaves the backlog, only in the one step that takes poll from the accept
\* into the second loop, and then it is one slot and one peer, however many
\* peers are pending.
C13_OneAcceptPerPoll ==
    [][/\ Phase(pc') \in {Phase(pc), (Phase(pc) + 1) % 4}
       /\ (naccepted' # naccepted \/ Len(conns') > Len(conns)
              \/ (backlog' < backlog /\ server' = "up"))
             => /\ pc = "accept" /\ pc' = "io"
                /\ backlog' = backlog - 1
                /\ Len(conns') <= Len(conns) + 1
                /\ Len(free_conns') >= Len(free_conns) - 1
                /\ naccepted' = naccepted + 1 <=> Len(conns') = Len(conns) + 1
       /\ (Len(conns') > Len(conns))
             => /\ conns' = TAILQ_INSERT_TAIL(conns, TAILQ_FIRST(free_conns))
                /\ free_conns' = TAILQ_REMOVE(free_conns, TAILQ_FIRST(free_conns))
       /\ (pc = "accept" /\ pc' = "accept")
             => UNCHANGED <<conns, free_conns, naccepted>>]_vars

\* poll has just accepted one peer and is in its second loop while another
\* peer is pending and another slot is free
C13_Witness ==
    /\ pc = "io"
    /\ rx.call = "accept" /\ rx.n = 1
    /\ Len(conns) = rx.pre + 1
    /\ backlog >= 1
    /\ ~TAILQ_EMPTY(free_conns)

\* the requests of connection c in state st
InState(c, st) ==
    {r \in ReqIds : requests[r].conn = c /\ requests[r].state = st}

\* a submitted and not yet released request of c is in one place only
HeldOnce(c) ==
    LET q == SendQueue(c)
        sr == conns_array[c].send_request
    IN  /\ \A i, j \in 1..Len(q) : q[i] = q[j] => i = j
        /\ \A i \in 1..Len(q) : q[i] \in InState(c, "queued")
        /\ \A r \in InState(c, "queued") : \E i \in 1..Len(q) : q[i] = r
        /\ sr # NULL => sr \in InState(c, "sending")
        /\ InState(c, "sending") \subseteq {sr}
        /\ \A i \in 1..Len(q) : q[i] # sr

\* C14: while the server is up, a request that was submitted and is not yet
\* released is in exactly one place: once in the send queue of its connection
\* or in that connection's send_request, never in both and never twice in the
\* queue; a connection has at most one request in flight; a request gets in
\* flight only from the head of the queue into an empty send_request, and
\* leaves it only by being released (sent in full, or discarded after the
\* close), which empties send_request.
C14_HeldExactlyOnce ==
    [][server' = "up"
       => /\ \A c \in Slots : HeldOnce(c)'
          /\ \A r \in ReqIds :
                LET c == requests[r].conn
                IN  /\ requests[r].state = "sending"
                       => \/ requests'[r] = requests[r]
                             /\ conns_array'[c].send_request = r
                          \/ /\ requests'[r].state = "sending"
                             /\ requests'[r].conn = c
                             /\ requests'[r].send_offset > requests[r].send_offset
                             /\ conns_array'[c].send_request = r
                          \/ /\ requests'[r].state \in {"sent", "discarded"}
                             /\ conns_array'[c].send_request = NULL
                    /\ (requests[r].state # "sending"
                           /\ requests'[r].state = "sending")
                       => /\ requests[r].state = "queued"
                          /\ conns_array[c].stqh_first = r
                          /\ conns_array[c].send_request = NULL
                          /\ conns_array'[c].send_request = r]_vars

\* one request of a connection is in flight, partly sent, and two more are in
\* its send queue
C14_Witness ==
    \E c \in Slots :
       /\ Active(c)
       /\ conns_array[c].send_request # NULL
       /\ requests[conns_array[c].send_request].send_offset > 0
       /\ Len(SendQueue(c)) = 2

\* C15: with a parser that counts each dispatched frame once and handlers that
\* submit each request at most once, outstanding_requests of every slot is,
\* while the server is up, the number of its requests that were dispatched and
\* not released (held by a handler, queued or in flight), so it is never
\* negative; a step changes it by the requests it dispatches minus the
\* requests it releases, and releases at most one; a released request is
\* never touched again.
C15_CounterMatches ==
    [][server' = "up"
       => /\ \A c \in Slots :
                LET rel == {r \in LiveReqs(c) :
                               requests'[r].state \in {"sent", "discarded"}}
                    disp == {r \in ReqIds : /\ requests[r].state = "unalloc"
                                            /\ requests'[r].state = "held"
                                            /\ requests'[r].conn = c}
                IN  /\ conns_array'[c].outstanding_requests
                          = Cardinality(LiveReqs(c)')
                    /\ conns_array'[c].outstanding_requests >= 0
                    /\ conns_array'[c].outstanding_requests
                          = conns_array[c].outstanding_requests
                            - Cardinality(rel) + Cardinality(disp)
                    /\ Cardinality(rel) <= 1
          /\ \A r \in ReqIds :
                /\ requests[r].state \in {"sent", "discarded"}
                      => requests'[r] = requests[r]
                /\ (requests[r].state \in Live /\ requests'[r].state \notin Live)
                      => requests'[r].state \in {"sent", "discarded"}]_vars

\* of three requests dispatched on a connection one was sent in full, one was
\* discarded after the close and one is still held: the counter is 1
C15_Witness ==
    \E c \in Slots :
       /\ Active(c)
       /\ conns_array[c].outstanding_requests = 1
       /\ \E r \in LiveReqs(c) : requests[r].state = "held"
       /\ \E r \in ReqIds : requests[r].state = "sent"
       /\ \E r \in ReqIds : requests[r].state = "discarded"

\* C16: reaping is live.  With poll called repeatedly and every held request
\* submitted in the end, a connection that is closed while the server is up
\* gets back into the free list (unless the server is shut down first).  And
\* the other way round: in a step that leaves a request of a closed active
\* connection with its handler, not submitted, the connection stays active.
C16_ReapLiveness ==
    /\ \A c \in Slots :
          (server = "up" /\ Active(c) /\ conns_array[c].closed)
             ~> (Free(c) \/ server # "up")
    /\ [][\A c \in Slots :
            (/\ server' = "up"
             /\ Active(c) /\ conns_array[c].closed
             /\ \E r \in InState(c, "held") : requests'[r].state = "held")
            => (Active(c)' /\ ~Free(c)')]_vars

\* a connection was closed with a request still held; the response submitted
\* afterwards was discarded and the slot is back in the free list
C16_Witness ==
    /\ server = "up"
    /\ nreq > 0
    /\ \A r \in 1..nreq : requests[r].state = "discarded"
    /\ \E c \in Slots : /\ Free(c)
                         /\ conns_array[c].closed
                         /\ conns = <<>>
                         /\ naccepted = 1

\* C17: a recv() that returned 0 makes conn_recv fail (and poll close the
\* connection as shut down by the peer) only when it was given room to read
\* into; with a full buffer (recv_len = SPDK_JSONRPC_RECV_BUF_SIZE, so
\* recv_avail = 0) a result of 0 is not taken for a shutdown of the peer.
C17_ZeroReadOnFullBuffer ==
    (pc = "recv_ret" /\ rx.call = "recv" /\ rx.n = 0 /\ rc # 0)
       => rx.pre < SPDK_JSONRPC_RECV_BUF_SIZE

\* C18: a send() that fails with EAGAIN, EWOULDBLOCK or EINTR changes nothing
\* of the connection: the request stays in send_request with its send_offset
\* and send_len, the queue, outstanding_requests and closed are as they were
\* (the connection is open), nothing went to the transport, and poll goes on
\* to the receive of the same connection.  The step of conn_send that follows
\* a request so left in flight is a send() of that request from that offset,
\* with no dequeue in between.
C18_TransientSendFailure ==
    [][/\ (pc = "send_io" /\ rx'.call = "send" /\ rx'.n = 0)
            => /\ UNCHANGED <<conns_array, requests, wire, conns, free_conns,
                              conn>>
               /\ conns_array'[conn].send_request # NULL
               /\ ~conns_array'[conn].closed
               /\ pc' = "recv"
       /\ (pc = "send" /\ pc' # pc /\ conns_array[conn].send_request # NULL)
            => /\ pc' = "send_io"
               /\ UNCHANGED <<conns_array, requests, wire>>
       /\ (pc = "send_io" /\ rx'.call = "send" /\ rx'.n > 0)
            => LET r == conns_array[conn].send_request
               IN  wire'[conn] = wire[conn]
                       \o SentBytes(r, requests[r].send_offset, rx'.n)]_vars

\* a request that was partly sent has just met a transient failure of send():
\* it is still in flight at the offset it had
C18_Witness ==
    /\ pc = "recv"
    /\ rx.call = "send" /\ rx.n = 0 /\ rx.pre > 0
    /\ conns_array[conn].send_request # NULL
    /\ requests[conns_array[conn].send_request].send_offset = rx.pre
    /\ ~conns_array[conn].closed

\* C19: the fill length of every receive buffer is always between 0 and
\* SPDK_JSONRPC_RECV_BUF_SIZE and is the number of bytes the buffer holds; a
\* recv() stores at most recv_avail bytes, behind the bytes already there; and
\* when the parser has consumed c bytes (0 < c <= recv_len after the read)
\* the buffer is left with the recv_len - c bytes that followed them, in
\* order, at its front.
C19_RecvBufferBounds ==
    [][/\ \A c \in Slots :
             /\ conns_array'[c].recv_len >= 0
             /\ conns_array'[c].recv_len <= SPDK_JSONRPC_RECV_BUF_SIZE
             /\ conns_array'[c].recv_len = Len(conns_array'[c].recv_buf)
       /\ (pc = "recv" /\ pc' = "recv_ret")
             => LET old == conns_array[conn]
                    new == conns_array'[conn]
                    got == IF rx'.n > 0 THEN rx'.n ELSE 0
                    eaten == IF rx'.parsed > 0 THEN rx'.parsed ELSE 0
                IN  /\ rx'.pre = old.recv_len
                    /\ old.recv_len + got <= SPDK_JSONRPC_RECV_BUF_SIZE
                    /\ eaten <= old.recv_len + got
                    /\ new.recv_len = old.recv_len + got - eaten
                    /\ Len(rx'.data) = got
                    /\ new.recv_buf = SubSeq(old.recv_buf \o rx'.data, eaten + 1,
                                             old.recv_len + got)]_vars

\* the parser has just consumed a frame that ended before the end of what the
\* buffer held: the byte behind it is now the first byte of the buffer
C19_Witness ==
    /\ pc = "recv_ret"
    /\ rx.call = "recv" /\ rx.parsed > 0
    /\ rx.pre + rx.n - rx.parsed > 0
    /\ conns_array[conn].recv_len = rx.pre + rx.n - rx.parsed
    /\ conns_array[conn].recv_buf # <<>>

\* C20: the step that closes an open active connection sets its closed flag
\* and makes its sockfd -1 and changes nothing else: outstanding_requests, the
\* send queue, send_request, the receive buffer and its fill length are as
\* they were, the slot is still in the active list, no request is touched.
\* A request is discarded only by the first loop of a poll step, on a
\* connection that was closed before.
C20_CloseChangesFlagAndFdOnly ==
    [][server' = "up"
       => /\ \A c \in Slots :
                (Active(c) /\ ~conns_array[c].closed /\ conns_array'[c].closed)
                => /\ conns_array'[c] = [conns_array[c] EXCEPT !.closed = TRUE,
                                                               !.sockfd = -1]
                   /\ conns_array[c].sockfd >= 0
                   /\ SendQueue(c)' = SendQueue(c)
                   /\ Active(c)' /\ ~Free(c)'
                   /\ UNCHANGED <<conns, free_conns, requests, nreq, wire,
                                  submitted>>
          /\ \A r \in ReqIds :
                (requests[r].state # "discarded"
                    /\ requests'[r].state = "discarded")
                => /\ pc \in {"reap", "drain_cs"}
                   /\ requests[r].conn = conn
                   /\ conns_array[conn].closed]_vars

\* a failed send() has just closed a connection that has a request in flight,
\* another one queued and bytes in its receive buffer: all are still there
C20_Witness ==
    /\ pc = "io"
    /\ rx.call = "send" /\ rx.n = -1
    /\ \E c \in Slots :
          /\ Active(c)
          /\ conns_array[c].closed
          /\ conns_array[c].sockfd = -1
          /\ conns_array[c].send_request # NULL
          /\ Len(SendQueue(c)) >= 1
          /\ conns_array[c].recv_len > 0
          /\ conns_array[c].outstanding_requests >= 2

====
